---- MODULE Spec2Model ----
(***************************************************************************)
(* Model of react-validate-hook: the coordinator (useValidator) and its    *)
(* field participants (ValidateWrapper + useValidationLogic).              *)
(*                                                                         *)
(* One state of the model is the state of the hooks after an event handler *)
(* (or a promise continuation) has run and React has flushed the queued    *)
(* state updates and effects.                                              *)
(***************************************************************************)
EXTENDS Integers, Sequences, FiniteSets, TLC

\* ------------------------------------------------------------------ bounds
\* number of participants ever mounted (useId hands out a fresh id per mount)
MaxIds == 2
\* number of validator invocations whose awaited result has not settled yet
MaxPending == 2

\* --------------------------------------------------------------- constants
\* JavaScript `undefined`
Undefined == "undefined"
\* the valid sentinel `true` of ValidationResult
Valid == "true"
\* outcome of a validator that throws (or returns a rejected promise)
Threw == "throw"

\* values a consumer passes to setValue or as the value prop
\* (TValue | undefined: absence is a value the validators decide on)
Values == {Undefined, "x"}

\* the validators handed to participants as `fn`
Fns == {"required", "alwaysError", "throws"}

\* fn = (v) => v && v.length > 0 ? true : "Required"
required(v) == IF v # Undefined /\ v # "" THEN Valid ELSE "Required"

\* fn = () => "Error"
alwaysError(v) == "Error"

\* fn = async () => { throw new Error("Validation threw") }
throws(v) == Threw

\* propsRef.current.fn(currentValueRef.current): the settled value of the
\* awaited call, fixed by the arguments read when the call is made
RunFn(fn, v) ==
  CASE fn = "required" -> required(v)
    [] fn = "alwaysError" -> alwaysError(v)
    [] OTHER -> throws(v)

\* the adapter a coordinator is created with in factory mode:
\* validationFactory = (data, schema) =>
\*   schema.safeParse(data).success ? true : "Async validation failed"
\* with the schema z.string() as the only schema: undefined does not parse
asyncFactory(v, schema) ==
  IF schema = "stringSchema" /\ v # Undefined THEN Valid ELSE "Async validation failed"

\* the validation of one value by the props a participant holds: the adapter
\* applied to the value and the schema when the props have a
\* validationFactory, the function fn applied to the value otherwise
RunValidation(factory, fn, v) ==
  IF factory # "none" THEN asyncFactory(v, fn) ELSE RunFn(fn, v)

\* Boolean(message) as used by filter(Boolean)
Truthy(m) == m # Undefined /\ m # ""

\* ------------------------------------------------------------------- state
VARIABLES
  canValidate,     \* coordinator: useState<boolean>(false)
  errors,          \* coordinator: useState<Record<string, string|undefined>>, keys in insertion order
  subscriberRefs,  \* coordinator: useRef<Record<string, callback>>, keys in insertion order
  field,           \* participants by id: the state of one useValidationLogic instance
  pending,         \* by participant id: the settled values awaited by its suspended validate() calls, in invocation order
  nextId,          \* next id useId() hands out
  props,           \* by participant id: the props its ValidateWrapper is rendered with
  lastValidate,    \* the most recent call of the coordinator's validate(): what it returned
  setFieldValueCalls, \* the calls of the consumers' value setters (the setValue prop of a participant) made by the latest handler
  raced,           \* for stating the race claims: some validation has settled before one that a participant invoked earlier
  replaced,        \* for stating the claims about results: some participant has been handed a new validator
  registry,        \* the registry of callbacks (subscriberRefs.current) with the callbacks it holds, keys in insertion order
  invoked,         \* the callbacks the latest broadcast over the registry invoked, in order
  overwritten      \* by key: the callback that a subscribe for the key replaced last, since the key was last absent

\* the state of a form: the coordinator and its participants
formVars == <<canValidate, errors, subscriberRefs, field, pending, nextId, props, lastValidate,
              setFieldValueCalls, raced, replaced>>

\* the state of the registry with its callbacks
registryVars == <<registry, invoked, overwritten>>

vars == <<formVars, registryVars>>

Ids == 1..MaxIds

\* a participant that has not been mounted yet
NoField ==
  [status |-> "new", error |-> Undefined, currentValue |-> Undefined,
   canValidate |-> FALSE, hasValueProp |-> FALSE, externalValue |-> Undefined,
   validationFactory |-> "none", fn |-> "required"]

\* a participant that has unmounted: its error state no longer exists, while
\* its refs (the mirrored value, the gating flag, the props) live on in the
\* closures of its setValue and of its validations in flight
Gone(f) == [f EXCEPT !.status = "unmounted", !.error = Undefined]

Mounted(id) == field[id].status = "mounted"

\* the participant has mounted at some time: the consumer has got its
\* setValue from the children callback, and can call it after the unmount too
HasMounted(id) == field[id].status # "new"

\* ------------------------------------------------------- coordinator pieces
HasKey(errs, key) == \E i \in 1..Len(errs) : errs[i].key = key

\* onError that pushes every report onto a list
onErrorAppend(errs, key, message) ==
  Append(errs, [key |-> key, message |-> message])

\* onError that keeps one entry per message instead of one per key
onErrorDedup(errs, key, message) ==
  IF Truthy(message) /\ \E i \in 1..Len(errs) : errs[i].message = message
    THEN errs
    ELSE IF HasKey(errs, key)
      THEN [i \in 1..Len(errs) |->
              IF errs[i].key = key THEN [key |-> key, message |-> message] ELSE errs[i]]
      ELSE Append(errs, [key |-> key, message |-> message])

\* onError that removes the key and inserts it again: a participant that
\* reports again moves behind the others
onErrorMoveToEnd(errs, key, message) ==
  Append(SelectSeq(errs, LAMBDA e : e.key # key), [key |-> key, message |-> message])

\* onError that builds the record from an empty one instead of from the
\* previous one: the reports of the other participants are lost
onErrorOverwrite(errs, key, message) == <<[key |-> key, message |-> message]>>

\* setErrors(prev => ({...prev, [key]: message}))
onError(errs, key, message) ==
  IF HasKey(errs, key)
    THEN [i \in 1..Len(errs) |->
            IF errs[i].key = key THEN [key |-> key, message |-> message] ELSE errs[i]]
    ELSE Append(errs, [key |-> key, message |-> message])

\* subscriberRefs.current[key] = callback
subscribe(subs, key) ==
  IF \E i \in 1..Len(subs) : subs[i] = key THEN subs ELSE Append(subs, key)

\* delete subscriberRefs.current[key]
unsubscribe(subs, key) == SelectSeq(subs, LAMBDA k : k # key)

RECURSIVE ObjectValuesFilterBoolean(_)
\* Object.values(errors).filter(Boolean)
ObjectValuesFilterBoolean(errs) ==
  IF errs = <<>> THEN <<>>
  ELSE IF Truthy(Head(errs).message)
         THEN <<Head(errs).message>> \o ObjectValuesFilterBoolean(Tail(errs))
         ELSE ObjectValuesFilterBoolean(Tail(errs))

\* flattenedErrors without filter(Boolean): every value of the record
flattenedErrorsUnfiltered(can, errs) ==
  IF can THEN [i \in 1..Len(errs) |-> errs[i].message] ELSE <<>>

\* flattenedErrors without the canValidate gate
flattenedErrorsUngated(can, errs) == ObjectValuesFilterBoolean(errs)

\* canValidate ? Object.values(errors).filter(Boolean) : []
flattenedErrorsOf(can, errs) ==
  IF can THEN ObjectValuesFilterBoolean(errs) ELSE <<>>

\* the `errors` the hook returns
flattenedErrors == flattenedErrorsOf(canValidate, errors)

\* ------------------------------------------------------- participant pieces
\* setError(x) of a participant: an unmounted component has no state left
setError(f, id, x) ==
  IF f[id].status = "mounted" THEN [f EXCEPT ![id].error = x] ELSE f

\* validate that calls fn as a function whatever the props hold
validateCallingFn(S, id) ==
  IF S.field[id].canValidate
    THEN [S EXCEPT !.pending =
            [@ EXCEPT ![id] =
               Append(@, RunFn(S.field[id].fn, S.field[id].currentValue))]]
    ELSE [S EXCEPT !.field = setError(@, id, Undefined),
                   !.errors = onError(@, id, Undefined)]

\* useValidationLogic.validate up to its first suspension: S is the record
\* [field, errors, pending]
validate(S, id) ==
  IF S.field[id].canValidate
    THEN [S EXCEPT !.pending =
            [@ EXCEPT ![id] =
               Append(@, RunValidation(S.field[id].validationFactory, S.field[id].fn,
                                       S.field[id].currentValue))]]
    ELSE [S EXCEPT !.field = setError(@, id, Undefined),
                   !.errors = onError(@, id, Undefined)]

\* a callback that does nothing when the flag it is given is the one the
\* participant already has
callbackOnce(S, id, flag) ==
  IF S.field[id].canValidate = flag THEN S
  ELSE validate([S EXCEPT !.field[id].canValidate = flag], id)

\* a callback that also empties the mirrored value when it is called with
\* false
callbackClearingValue(S, id, flag) ==
  validate([S EXCEPT !.field[id].canValidate = flag,
                     !.field[id].currentValue = IF flag THEN @ ELSE Undefined], id)

\* the callback a participant subscribes: setCanValidate(flag); return validate()
callback(S, id, flag) ==
  validate([S EXCEPT !.field[id].canValidate = flag], id)

RECURSIVE forEachCallback(_, _, _)
\* Object.values(subscriberRefs.current).forEach(cb => cb(flag))
forEachCallback(S, keys, flag) ==
  IF keys = <<>> THEN S
  ELSE forEachCallback(callback(S, Head(keys), flag), Tail(keys), flag)

\* applyResult that reports failures only and never clears on `true`
applyResultNoClear(S, id, result) ==
  IF result = Threw \/ result = Valid THEN S
  ELSE [S EXCEPT !.field = setError(@, id, result),
                 !.errors = onError(@, id, result)]

\* applyResult that clears the participant's own error on `true` and does
\* not report to the coordinator
applyResultLocalClear(S, id, result) ==
  IF result = Threw THEN S
  ELSE IF result = Valid
    THEN [S EXCEPT !.field = setError(@, id, Undefined)]
    ELSE [S EXCEPT !.field = setError(@, id, result),
                   !.errors = onError(@, id, result)]

\* applyResult that catches what the validator throws and reports it as a
\* message
applyResultCatch(S, id, result) ==
  IF result = Threw
    THEN [S EXCEPT !.field = setError(@, id, "Validation threw"),
                   !.errors = onError(@, id, "Validation threw")]
  ELSE IF result = Valid
    THEN [S EXCEPT !.field = setError(@, id, Undefined),
                   !.errors = onError(@, id, Undefined)]
    ELSE [S EXCEPT !.field = setError(@, id, result),
                   !.errors = onError(@, id, result)]

\* the continuation of useValidationLogic.validate after `await`
applyResult(S, id, result) ==
  IF result = Threw THEN S
  ELSE IF result = Valid
    THEN [S EXCEPT !.field = setError(@, id, Undefined),
                   !.errors = onError(@, id, Undefined)]
    ELSE [S EXCEPT !.field = setError(@, id, result),
                   !.errors = onError(@, id, result)]

\* the error handed to the children callback without the canValidate gate
exposedErrorUngated(f) == f.error

\* error handed to the children callback: canValidate ? error : undefined
exposedErrorOf(f) == IF f.canValidate THEN f.error ELSE Undefined

\* the error a mounted participant shows
exposedError(id) == exposedErrorOf(field[id])

\* the argument of the children callback decided by the value itself instead
\* of by the presence of the value prop
childrenPropsByValue(f) ==
  IF f.currentValue # Undefined
    THEN [error |-> exposedErrorOf(f), value |-> f.currentValue, setValue |-> "setValue"]
    ELSE [error |-> exposedErrorOf(f), setValue |-> "setValue"]

\* the argument ValidateWrapper hands to the children callback
childrenProps(f) ==
  IF f.hasValueProp
    THEN [error |-> exposedErrorOf(f), value |-> f.currentValue, setValue |-> "setValue"]
    ELSE [error |-> exposedErrorOf(f), setValue |-> "setValue"]

Cur == [field |-> field, errors |-> errors, pending |-> pending]

RECURSIVE SumLen(_, _)
SumLen(p, n) == IF n = 0 THEN 0 ELSE Len(p[n]) + SumLen(p, n - 1)

\* number of validator invocations in flight
InFlight(p) == SumLen(p, MaxIds)

RemoveAt(s, i) == SubSeq(s, 1, i - 1) \o SubSeq(s, i + 1, Len(s))

\* lastValidate before the first call of validate()
NotCalled == [called |-> FALSE, kind |-> "undefined", list |-> <<>>]

\* lastValidate after a call: the function body has no return statement, so
\* the caller gets undefined as soon as the broadcast is done, not a promise
\* (kind "errors" with a list of messages, or kind "rejected", never occur)
ReturnedUndefined == [called |-> TRUE, kind |-> "undefined", list |-> <<>>]

\* the props of a ValidateWrapper without the value prop (it keeps its value
\* itself), one choice per validator; with the schema, the props InnerWrapper
\* merges the coordinator's validationFactory into
PropsChoices ==
  {[fn |-> fn] : fn \in Fns}
    \cup {[validationFactory |-> "asyncFactory", fn |-> "stringSchema"]}

\* the props of a ValidateWrapper with the value prop (its parent keeps the
\* value): value={undefined} is a value prop too
ControlledProps == [value |-> Undefined, fn |-> "required"]

\* a position of the form where no ValidateWrapper is rendered
NotRendered == [fn |-> "none"]

\* const hasValueProp = "value" in allProps
hasValuePropOf(allProps) == "value" \in DOMAIN allProps

\* const externalValue = "value" in allProps ? allProps.value : undefined
externalValueOf(allProps) ==
  IF "value" \in DOMAIN allProps THEN allProps.value ELSE Undefined

\* "validationFactory" in propsRef.current ? propsRef.current.validationFactory : none
validationFactoryOf(allProps) ==
  IF "validationFactory" \in DOMAIN allProps THEN allProps.validationFactory ELSE "none"

\* the form of a single ValidateWrapper, which has the value prop
LoneForm == [id \in Ids |-> IF id = 1 THEN ControlledProps ELSE NotRendered]

\* the forms rendered: two ValidateWrappers that get the same props and keep
\* their values themselves, or a single ValidateWrapper with the value prop
Forms ==
  {[id \in Ids |-> IF id > 2 THEN NotRendered ELSE c] : c \in PropsChoices}
    \cup {LoneForm}

\* -------------------------------------------------------------------- Init
Init ==
  /\ props \in Forms
  /\ canValidate = FALSE
  /\ errors = <<>>
  /\ subscriberRefs = <<>>
  /\ field = [id \in Ids |-> NoField]
  /\ pending = [id \in Ids |-> <<>>]
  /\ nextId = 1
  /\ lastValidate = NotCalled
  /\ setFieldValueCalls = <<>>
  /\ raced = FALSE
  /\ replaced = FALSE
  /\ registry = <<>>
  /\ invoked = <<>>
  /\ overwritten = [k \in Ids |-> "none"]

\* ----------------------------------------------------------------- actions
\* a mount whose canValidate state starts as the coordinator's flag instead
\* of false
MountWithCoordinatorFlag ==
  /\ nextId <= MaxIds
  /\ props[nextId] # NotRendered
  /\ LET id == nextId
         hasValueProp == hasValuePropOf(props[id])
         value == externalValueOf(props[id])
         fn == props[id].fn
         f0 == [field EXCEPT ![id] =
                  [status |-> "mounted", error |-> Undefined,
                   currentValue |-> value, canValidate |-> canValidate,
                   hasValueProp |-> hasValueProp, externalValue |-> value,
                   validationFactory |-> validationFactoryOf(props[id]),
                   fn |-> fn]]
         S0 == [field |-> f0, errors |-> errors, pending |-> pending]
         S1 == IF hasValueProp THEN validate(S0, id) ELSE S0
     IN /\ field' = S1.field
        /\ errors' = S1.errors
        /\ pending' = S1.pending
        /\ subscriberRefs' = subscribe(subscriberRefs, id)
        /\ nextId' = nextId + 1
  /\ setFieldValueCalls' = <<>>
  /\ UNCHANGED <<registryVars, replaced>>
  /\ UNCHANGED <<props, canValidate, lastValidate, raced>>

\* a ValidateWrapper mounts: useState initialisers, then the effects in order
\* (propsRef, external value sync, subscribe)
Mount ==
  /\ nextId <= MaxIds
  /\ props[nextId] # NotRendered
  /\ setFieldValueCalls' = <<>>
  /\ UNCHANGED <<registryVars, replaced>>
  /\ UNCHANGED <<props, canValidate, lastValidate, raced>>
  /\ LET id == nextId
         hasValueProp == hasValuePropOf(props[id])
         value == externalValueOf(props[id])
         fn == props[id].fn
         f0 == [field EXCEPT ![id] =
                  [status |-> "mounted", error |-> Undefined,
                   currentValue |-> value, canValidate |-> FALSE,
                   hasValueProp |-> hasValueProp, externalValue |-> value,
                   validationFactory |-> validationFactoryOf(props[id]),
                   fn |-> fn]]
         S0 == [field |-> f0, errors |-> errors, pending |-> pending]
         S1 == IF hasValueProp THEN validate(S0, id) ELSE S0
     IN /\ field' = S1.field
        /\ errors' = S1.errors
        /\ pending' = S1.pending
        /\ subscriberRefs' = subscribe(subscriberRefs, id)
        /\ nextId' = nextId + 1

\* an unmount whose effect cleanup does not unsubscribe
UnmountKeepSubscription(id) ==
  /\ Mounted(id)
  /\ field' = [field EXCEPT ![id] = Gone(@)]
  /\ setFieldValueCalls' = <<>>
  /\ UNCHANGED <<registryVars, replaced>>
  /\ UNCHANGED <<props, canValidate, errors, pending, nextId, lastValidate, raced, subscriberRefs>>

\* a ValidateWrapper unmounts: the cleanup of the subscribe effect
Unmount(id) ==
  /\ Mounted(id)
  /\ field' = [field EXCEPT ![id] = Gone(@)]
  /\ subscriberRefs' = unsubscribe(subscriberRefs, id)
  /\ setFieldValueCalls' = <<>>
  /\ UNCHANGED <<registryVars, replaced>>
  /\ UNCHANGED <<props, canValidate, errors, pending, nextId, lastValidate, raced>>

\* setValue that forwards to the consumer's setter only while reporting
SetValueForwardWhenReporting(id, v) ==
  /\ HasMounted(id)
  /\ field[id].canValidate => InFlight(pending) < MaxPending
  /\ LET S0 == [Cur EXCEPT !.field[id].currentValue = v]
         S1 == validate(S0, id)
     IN /\ field' = S1.field
        /\ errors' = S1.errors
        /\ pending' = S1.pending
  /\ setFieldValueCalls' =
       IF field[id].canValidate THEN <<[id |-> id, value |-> v]>> ELSE <<>>
  /\ UNCHANGED <<registryVars, replaced>>
  /\ UNCHANGED <<props, canValidate, subscriberRefs, nextId, lastValidate, raced>>

\* setValue that starts the validation before it mirrors the new value: the
\* validator gets the value mirrored before
SetValueValidateFirst(id, v) ==
  /\ HasMounted(id)
  /\ field[id].canValidate => InFlight(pending) < MaxPending
  /\ LET S0 == validate(Cur, id)
         S1 == [S0 EXCEPT !.field[id].currentValue = v]
     IN /\ field' = S1.field
        /\ errors' = S1.errors
        /\ pending' = S1.pending
  /\ setFieldValueCalls' = <<[id |-> id, value |-> v]>>
  /\ UNCHANGED <<registryVars, replaced>>
  /\ UNCHANGED <<props, canValidate, subscriberRefs, nextId, lastValidate, raced>>

\* the participant's setValue(newValue)
SetValue(id, v) ==
  /\ HasMounted(id)
  /\ field[id].canValidate => InFlight(pending) < MaxPending
  /\ setFieldValueCalls' = <<[id |-> id, value |-> v]>>
  /\ UNCHANGED <<registryVars, replaced>>
  /\ UNCHANGED <<props, canValidate, subscriberRefs, nextId, lastValidate, raced>>
  /\ LET S0 == [Cur EXCEPT !.field[id].currentValue = v]
         S1 == validate(S0, id)
     IN /\ field' = S1.field
        /\ errors' = S1.errors
        /\ pending' = S1.pending

\* external value sync that goes through setValue(externalValue), and so
\* through the consumer's setter
ExternalValueSyncViaSetValue(id, v) ==
  /\ Mounted(id)
  /\ field[id].hasValueProp
  /\ v # field[id].externalValue
  /\ field[id].canValidate => InFlight(pending) < MaxPending
  /\ LET S0 == [Cur EXCEPT !.field[id].externalValue = v,
                           !.field[id].currentValue = v]
         S1 == validate(S0, id)
     IN /\ field' = S1.field
        /\ errors' = S1.errors
        /\ pending' = S1.pending
  /\ setFieldValueCalls' = <<[id |-> id, value |-> v]>>
  /\ UNCHANGED <<registryVars, replaced>>
  /\ props' = [props EXCEPT ![id].value = v]
  /\ UNCHANGED <<canValidate, subscriberRefs, nextId, lastValidate, raced>>

\* the form renders a participant again with a new value prop: the props it
\* is rendered with change and the external value sync effect runs
ExternalValueSync(id, v) ==
  /\ Mounted(id)
  /\ field[id].hasValueProp
  /\ v # field[id].externalValue
  /\ field[id].canValidate => InFlight(pending) < MaxPending
  /\ setFieldValueCalls' = <<>>
  /\ UNCHANGED <<registryVars, replaced>>
  /\ props' = [props EXCEPT ![id].value = v]
  /\ UNCHANGED <<canValidate, subscriberRefs, nextId, lastValidate, raced>>
  /\ LET S0 == [Cur EXCEPT !.field[id].externalValue = v,
                           !.field[id].currentValue = v]
         S1 == validate(S0, id)
     IN /\ field' = S1.field
        /\ errors' = S1.errors
        /\ pending' = S1.pending

\* the validators a re-render hands to a mounted participant as its new fn
ReplacementFns == {"required", "alwaysError", "throws"}

\* a re-render with a new fn whose effect leaves propsRef.current as it was:
\* validate() keeps the props of the render that created it
SetPropsNoRef(id, fn) ==
  /\ Mounted(id)
  /\ \A other \in Ids \ {id} : props[other] = NotRendered
  /\ fn # props[id].fn
  /\ props' = [props EXCEPT ![id].fn = fn]
  /\ setFieldValueCalls' = <<>>
  /\ replaced' = TRUE
  /\ UNCHANGED registryVars
  /\ UNCHANGED <<field, canValidate, errors, pending, subscriberRefs, nextId, lastValidate, raced>>

\* a re-render with a new fn whose effect also runs validate()
SetPropsRevalidate(id, fn) ==
  /\ Mounted(id)
  /\ \A other \in Ids \ {id} : props[other] = NotRendered
  /\ fn # props[id].fn
  /\ props' = [props EXCEPT ![id].fn = fn]
  /\ LET S1 == validate([Cur EXCEPT !.field[id].fn = fn], id)
     IN /\ field' = S1.field
        /\ errors' = S1.errors
        /\ pending' = S1.pending
  /\ setFieldValueCalls' = <<>>
  /\ replaced' = TRUE
  /\ UNCHANGED registryVars
  /\ UNCHANGED <<canValidate, subscriberRefs, nextId, lastValidate, raced>>

\* the only ValidateWrapper of a form is rendered again with a new fn: the
\* effect on [props] stores the new props in propsRef.current
SetProps(id, fn) ==
  /\ Mounted(id)
  /\ \A other \in Ids \ {id} : props[other] = NotRendered
  /\ fn # props[id].fn
  /\ props' = [props EXCEPT ![id].fn = fn]
  /\ field' = [field EXCEPT ![id].fn = fn]
  /\ setFieldValueCalls' = <<>>
  /\ replaced' = TRUE
  /\ UNCHANGED registryVars
  /\ UNCHANGED <<canValidate, errors, pending, subscriberRefs, nextId, lastValidate, raced>>

\* validate() that awaits each callback before it calls the next one: the
\* handler suspends after the first
ValidateSerial ==
  /\ InFlight(pending) + Len(subscriberRefs) <= MaxPending
  /\ LET S1 == forEachCallback(Cur, IF subscriberRefs = <<>> THEN <<>>
                                     ELSE <<Head(subscriberRefs)>>, TRUE)
     IN /\ field' = S1.field
        /\ errors' = S1.errors
        /\ pending' = S1.pending
        /\ canValidate' = TRUE
        /\ lastValidate' = ReturnedUndefined
  /\ setFieldValueCalls' = <<>>
  /\ UNCHANGED <<registryVars, replaced>>
  /\ UNCHANGED <<props, subscriberRefs, nextId, raced>>

\* the coordinator's validate()
Validate ==
  /\ InFlight(pending) + Len(subscriberRefs) <= MaxPending
  /\ setFieldValueCalls' = <<>>
  /\ UNCHANGED <<registryVars, replaced>>
  /\ UNCHANGED <<props, subscriberRefs, nextId, raced>>
  /\ canValidate' = TRUE
  /\ lastValidate' = ReturnedUndefined
  /\ LET S1 == forEachCallback(Cur, subscriberRefs, TRUE)
     IN /\ field' = S1.field
        /\ errors' = S1.errors
        /\ pending' = S1.pending

\* reset() that clears the coordinator's state and calls no callback
ResetWithoutBroadcast ==
  /\ errors' = <<>>
  /\ canValidate' = FALSE
  /\ setFieldValueCalls' = <<>>
  /\ UNCHANGED <<registryVars, replaced>>
  /\ UNCHANGED <<field, pending, props, subscriberRefs, nextId, lastValidate, raced>>

\* the coordinator's reset()
Reset ==
  /\ setFieldValueCalls' = <<>>
  /\ UNCHANGED <<registryVars, replaced>>
  /\ UNCHANGED <<props, subscriberRefs, nextId, lastValidate, raced>>
  /\ canValidate' = FALSE
  /\ errors' = <<>>
  /\ LET S1 == forEachCallback(Cur, subscriberRefs, FALSE)
     IN /\ field' = S1.field
        /\ pending' = S1.pending

\* the awaited result of one validator invocation arrives (in any order: a
\* validator may take any time) and validate() of the participant resumes
Settle(id, i) ==
  /\ i \in 1..Len(pending[id])
  /\ raced' = (raced \/ i > 1)
  /\ setFieldValueCalls' = <<>>
  /\ UNCHANGED <<registryVars, replaced>>
  /\ UNCHANGED <<props, canValidate, subscriberRefs, nextId, lastValidate>>
  /\ LET S0 == [Cur EXCEPT !.pending[id] = RemoveAt(@, i)]
         S1 == applyResult(S0, id, pending[id][i])
     IN /\ field' = S1.field
        /\ errors' = S1.errors
        /\ pending' = S1.pending

Next ==
  \/ Mount
  \/ \E id \in Ids : Unmount(id)
  \/ \E id \in Ids, v \in Values : SetValue(id, v)
  \/ \E id \in Ids, v \in Values : ExternalValueSync(id, v)
  \/ \E id \in Ids, fn \in ReplacementFns : SetProps(id, fn)
  \/ Validate
  \/ Reset
  \/ \E id \in Ids, i \in 1..MaxPending : Settle(id, i)

Spec == Init /\ [][Next]_vars

\* ------------------------------------------------- the registry on its own
\* the callbacks handed to subscribe
Callbacks == {"f", "g"}

\* subscribe that pushes the callback onto a list
subscribeCallbackAppend(r, key, cb) ==
  Append(r, [key |-> key, callback |-> cb])

\* subscriberRefs.current[key] = callback
subscribeCallback(r, key, cb) ==
  IF \E i \in 1..Len(r) : r[i].key = key
    THEN [i \in 1..Len(r) |->
            IF r[i].key = key THEN [key |-> key, callback |-> cb] ELSE r[i]]
    ELSE Append(r, [key |-> key, callback |-> cb])

\* delete subscriberRefs.current[key]
unsubscribeCallback(r, key) == SelectSeq(r, LAMBDA e : e.key # key)

\* Object.values(subscriberRefs.current).forEach(callback => callback(flag)):
\* the callbacks invoked, in order
broadcast(r) == [i \in 1..Len(r) |-> r[i].callback]

\* the callback the registry holds for a key
callbackOf(r, key) ==
  IF \E i \in 1..Len(r) : r[i].key = key
    THEN r[CHOOSE i \in 1..Len(r) : r[i].key = key].callback
    ELSE "none"

\* a coordinator with no ValidateWrapper rendered, whose subscribe,
\* unsubscribe and broadcasts are exercised directly
InitRegistry ==
  /\ props = [id \in Ids |-> NotRendered]
  /\ canValidate = FALSE
  /\ errors = <<>>
  /\ subscriberRefs = <<>>
  /\ field = [id \in Ids |-> NoField]
  /\ pending = [id \in Ids |-> <<>>]
  /\ nextId = 1
  /\ lastValidate = NotCalled
  /\ setFieldValueCalls = <<>>
  /\ raced = FALSE
  /\ replaced = FALSE
  /\ registry = <<>>
  /\ invoked = <<>>
  /\ overwritten = [k \in Ids |-> "none"]

\* subscribe(key, cb)
Subscribe(key, cb) ==
  /\ registry' = subscribeCallback(registry, key, cb)
  /\ overwritten' = IF callbackOf(registry, key) # "none"
                      THEN [overwritten EXCEPT ![key] = callbackOf(registry, key)]
                      ELSE overwritten
  /\ UNCHANGED <<invoked, formVars>>

\* unsubscribe(key), also for a key that is not registered
Unsubscribe(key) ==
  /\ registry' = unsubscribeCallback(registry, key)
  /\ overwritten' = [overwritten EXCEPT ![key] = "none"]
  /\ UNCHANGED <<invoked, formVars>>

\* validate() (flag true) or reset() (flag false) of this coordinator: the
\* broadcast over the registry, then setCanValidate(flag) and, for reset(),
\* setErrors({})
Broadcast(flag) ==
  /\ invoked' = broadcast(registry)
  /\ canValidate' = flag
  /\ errors' = IF flag THEN errors ELSE <<>>
  /\ lastValidate' = IF flag THEN ReturnedUndefined ELSE lastValidate
  /\ UNCHANGED <<registry, overwritten>>
  /\ UNCHANGED <<subscriberRefs, field, pending, nextId, props, setFieldValueCalls,
                 raced, replaced>>

NextRegistry ==
  \/ \E key \in Ids, cb \in Callbacks : Subscribe(key, cb)
  \/ \E key \in Ids : Unsubscribe(key)
  \/ \E flag \in BOOLEAN : Broadcast(flag)

SpecRegistry == InitRegistry /\ [][NextRegistry]_vars

\* ------------------------------------------------------ notions of the claims
\* errorsById[id]: the message the coordinator holds for a participant
errorsById(id) ==
  IF HasKey(errors, id)
    THEN errors[CHOOSE i \in 1..Len(errors) : errors[i].key = id].message
    ELSE Undefined

\* what the participant's validator gives for its current mirrored value
Verdict(id) ==
  RunValidation(field[id].validationFactory, field[id].fn, field[id].currentValue)

\* the error a validation result stands for: none for the valid sentinel
AsError(r) == IF r = Valid THEN Undefined ELSE r

\* the participant is in state Reporting
Reporting(id) == Mounted(id) /\ field[id].canValidate

\* number of entries of a sequence equal to m
RECURSIVE Count(_, _)
Count(seq, m) ==
  IF seq = <<>> THEN 0
  ELSE (IF Head(seq) = m THEN 1 ELSE 0) + Count(Tail(seq), m)

MountedIds == {id \in Ids : Mounted(id)}

\* --------------------------------------------------------------------- C1
\* C1: within one participant only the most recently invoked validation's
\* result is applied, for every resolution order: once nothing of a reporting
\* participant is in flight, its error and its errorsById entry are the
\* validator's result for the value validated last (its current mirrored
\* value).
C1_LastInvocationWins ==
  \A id \in Ids :
    (Reporting(id) /\ pending[id] = <<>> /\ Verdict(id) # Threw)
      => /\ field[id].error = AsError(Verdict(id))
         /\ errorsById(id) = AsError(Verdict(id))

\* --------------------------------------------------------------------- C2
\* C2: while the coordinator's canValidate (canReport) is false, errors is
\* empty and every mounted participant exposes no error, whatever is held in
\* errorsById, in the participants' error state or in flight.
C2_Gating ==
  ~canValidate =>
    /\ flattenedErrors = <<>>
    /\ \A id \in Ids : Mounted(id) => exposedError(id) = Undefined

\* a result settled after reset(): the participant holds a message while the
\* coordinator does not report
C2_Witness ==
  /\ ~canValidate
  /\ \E id \in Ids : Mounted(id) /\ field[id].error # Undefined

\* --------------------------------------------------------------------- C3
\* C3: at the moment validate() hands its outcome to the caller, no validation
\* that this call triggered is still in flight.
C3_ResolvesAfterAllSettled ==
  [][Validate => \A id \in Ids : Len(pending'[id]) <= Len(pending[id])]_vars

\* --------------------------------------------------------------------- C4
\* C4: validate() resolves with the sequence of messages that errors holds at
\* that moment.
C4_ResolvesWithErrors ==
  [][Validate =>
       /\ lastValidate'.kind = "errors"
       /\ lastValidate'.list = flattenedErrors']_vars

\* --------------------------------------------------------------------- C5
\* C5: canReport true and nothing in flight: every mounted participant whose
\* validator rejects its current value exposes that message and contributes
\* it to errors. Violated by a participant that is Reporting: its two
\* validations settle in the reverse of the order they were invoked, and the
\* accepted result of the earlier value is applied over the message of the
\* current one.
C5_AllInvalidShown ==
  (canValidate /\ InFlight(pending) = 0) =>
    \A id \in Ids :
      (Mounted(id) /\ Verdict(id) \notin {Valid, Threw})
        => /\ exposedError(id) = Verdict(id)
           /\ errorsById(id) = Verdict(id)
           /\ Count(flattenedErrors, Verdict(id)) >= 1

\* --------------------------------------------------------------------- C6
\* C6: N mounted participants whose validators always fail (and have been
\* their validators since they mounted), all notified by validate() and with
\* nothing in flight (no participant has unmounted):
\* errors has exactly N entries, each the validator's message, and equal
\* messages of different participants are all kept.
C6_OnePerParticipant ==
  ( /\ canValidate
    /\ InFlight(pending) = 0
    /\ ~replaced
    /\ \A id \in Ids : field[id].status # "unmounted"
    /\ \A id \in MountedIds : Reporting(id) /\ field[id].fn = "alwaysError" )
  => /\ Len(flattenedErrors) = Cardinality(MountedIds)
     /\ Count(flattenedErrors, "Error") = Cardinality(MountedIds)

\* two participants both report "Error": both entries are in errors
C6_Witness ==
  /\ canValidate
  /\ InFlight(pending) = 0
  /\ ~replaced
  /\ Cardinality(MountedIds) = 2
  /\ \A id \in MountedIds : Reporting(id) /\ field[id].fn = "alwaysError"
  /\ flattenedErrors = <<"Error", "Error">>

\* --------------------------------------------------------------------- C7
\* C7: reset() leaves errors empty and the coordinator not reporting at once,
\* whatever is in flight, and from a state where the coordinator does not
\* report, every step other than validate() (a settling validation included)
\* leaves errors empty.
C7_ResetClears ==
  [][ /\ Reset => (flattenedErrors' = <<>> /\ ~canValidate')
      /\ (~canValidate /\ ~Validate) => (flattenedErrors' = <<>> /\ ~canValidate') ]_vars

\* after validate() and reset(), a validation from before the reset is still
\* in flight and errorsById already holds a message again
C7_Witness ==
  /\ ~canValidate
  /\ lastValidate.called
  /\ InFlight(pending) > 0
  /\ \E i \in 1..Len(errors) : Truthy(errors[i].message)

\* --------------------------------------------------------------------- C8
\* C8: for a reporting participant, when its most recently invoked validation
\* (the one of its current value, for instance the one setValue(v) started;
\* the last one in flight when none has settled out of order, run by the
\* validator the participant has had since it mounted) settles, its
\* errorsById entry, its exposed error and its contribution to
\* errors become the validator's result for that value, with no validate()
\* call: nothing for an accepted value, the new message for a rejected one.
C8_LiveRevalidation ==
  [][ \A id \in Ids :
        ( /\ canValidate
          /\ Reporting(id)
          /\ ~raced
          /\ ~replaced
          /\ Verdict(id) # Threw
          /\ Settle(id, Len(pending[id])) )
        => /\ errorsById(id)' = AsError(Verdict(id))
           /\ exposedError(id)' = AsError(Verdict(id))
           /\ (Verdict(id) = Valid =>
                 Len(flattenedErrors') =
                   Len(flattenedErrors) - (IF Truthy(errorsById(id)) THEN 1 ELSE 0))
           /\ (Verdict(id) # Valid =>
                 /\ Len(flattenedErrors') =
                      Len(flattenedErrors) + (IF Truthy(errorsById(id)) THEN 0 ELSE 1)
                 /\ Count(flattenedErrors', Verdict(id)) >= 1) ]_vars

\* validate() has put the participant's message into errors, setValue("x")
\* has been called since, and the validation it started is about to settle
C8_Witness ==
  /\ canValidate
  /\ \E id \in Ids :
       /\ Reporting(id)
       /\ field[id].currentValue = "x"
       /\ errorsById(id) = "Required"
       /\ Count(flattenedErrors, "Required") >= 1
       /\ pending[id] = <<Valid>>
       /\ ~raced
       /\ ~replaced

\* --------------------------------------------------------------------- C9
\* C9: when a validator that validate() invokes throws, that call of
\* validate() rejects.
C9_ThrowRejectsValidate ==
  [][ ( /\ Validate
        /\ \E id \in Ids :
             /\ Len(pending'[id]) > Len(pending[id])
             /\ pending'[id][Len(pending'[id])] = Threw )
      => lastValidate'.kind = "rejected" ]_vars

\* -------------------------------------------------------------------- C10
\* C10: unmounting removes the participant's callback from the registry and
\* leaves errorsById as it is, and a message of an unmounted participant
\* leaves errors only by reset().
C10_StaleErrorUntilReset ==
  [][ /\ \A id \in Ids :
           Unmount(id) =>
             /\ ~(\E i \in 1..Len(subscriberRefs') : subscriberRefs'[i] = id)
             /\ errors' = errors
      /\ \A id \in Ids :
           ( /\ field[id].status = "unmounted"
             /\ Truthy(errorsById(id))
             /\ ~Reset )
           => errorsById(id)' = errorsById(id) ]_vars

\* -------------------------------------------------------------------- C11
\* C11: when the value prop of a participant changes, its mirrored value and
\* the value it hands to the children callback become the new value, its
\* validate() runs for the new value (a reporting participant invokes its
\* validator on it, a gated one takes the gated branch), and the consumer's
\* value setter is not called.
C11_ExternalSyncInternal ==
  [][ \A id \in Ids, v \in Values :
        ExternalValueSync(id, v) =>
          /\ field'[id].currentValue = v
          /\ childrenProps(field'[id]).value = v
          /\ setFieldValueCalls' = <<>>
          /\ IF field[id].canValidate
               THEN pending'[id] =
                      Append(pending[id],
                             RunValidation(field[id].validationFactory, field[id].fn, v))
               ELSE /\ pending'[id] = pending[id]
                    /\ field'[id].error = Undefined
                    /\ errorsById(id)' = Undefined ]_vars

\* a reporting participant that shows "Required" and whose value prop has
\* changed to "x": it mirrors "x", the validation of "x" is in flight, no
\* setter call was made
C11_Witness ==
  \E id \in Ids :
    /\ Reporting(id)
    /\ field[id].hasValueProp
    /\ field[id].externalValue = "x"
    /\ field[id].currentValue = "x"
    /\ exposedError(id) = "Required"
    /\ pending[id] = <<Valid>>
    /\ setFieldValueCalls = <<>>

\* -------------------------------------------------------------------- C12
\* C12: every setValue(v) of a participant sets its mirrored value to v and
\* calls the consumer's value setter exactly once, with v, in the same
\* handler, whether or not the coordinator reports and whatever is in flight;
\* a participant with a value prop hands v to the children callback from
\* then on, until its value prop changes or setValue is called again.
C12_SetValueForwards ==
  [][ /\ \A id \in Ids, v \in Values :
           SetValue(id, v) =>
             /\ field'[id].currentValue = v
             /\ setFieldValueCalls' = <<[id |-> id, value |-> v]>>
             /\ field[id].hasValueProp => childrenProps(field'[id]).value = v
      /\ \A id \in Ids :
           ( /\ Mounted(id) /\ field'[id].status = "mounted"
             /\ field[id].hasValueProp
             /\ field'[id].externalValue = field[id].externalValue
             /\ ~(\E v \in Values : SetValue(id, v)) )
           => childrenProps(field'[id]).value = childrenProps(field[id]).value ]_vars

\* setValue("x") of a participant with a value prop, called after reset()
\* while a validation is in flight: the setter got "x", the exposed value is
\* "x" while the value prop still is undefined
C12_Witness ==
  \E id \in Ids :
    /\ Mounted(id)
    /\ ~canValidate
    /\ field[id].hasValueProp
    /\ field[id].externalValue = Undefined
    /\ childrenProps(field[id]).value = "x"
    /\ pending[id] # <<>>
    /\ setFieldValueCalls = <<[id |-> id, value |-> "x"]>>

\* -------------------------------------------------------------------- C13
\* C13: whenever the coordinator reports, errors holds exactly the non-empty
\* messages of errorsById, one per id that has one, and no undefined; and a
\* reporting participant whose latest validation has been applied and
\* returned the valid sentinel (with the validator it has had since it
\* mounted) holds no message in errorsById.
C13_ErrorsAreHeldMessages ==
  /\ canValidate =>
       /\ Len(flattenedErrors) = Cardinality({id \in Ids : Truthy(errorsById(id))})
       /\ \A i \in 1..Len(flattenedErrors) : Truthy(flattenedErrors[i])
       /\ \A id \in Ids :
            Truthy(errorsById(id)) => Count(flattenedErrors, errorsById(id)) >= 1
  /\ \A id \in Ids :
       ( /\ Reporting(id) /\ pending[id] = <<>>
         /\ ~raced /\ ~replaced
         /\ Verdict(id) = Valid )
         => errorsById(id) = Undefined

\* two reporting participants, one with an accepted value whose entry holds
\* undefined, one with a rejected value: errors has the one message only
C13_Witness ==
  /\ canValidate
  /\ InFlight(pending) = 0
  /\ ~raced
  /\ ~replaced
  /\ flattenedErrors = <<"Required">>
  /\ \E a \in Ids, b \in Ids :
       /\ Reporting(a) /\ Verdict(a) = Valid
       /\ HasKey(errors, a) /\ errorsById(a) = Undefined
       /\ Reporting(b) /\ errorsById(b) = "Required"

\* -------------------------------------------------------------------- C14
\* C14: at any time each participant id has at most one entry in errorsById,
\* and errors has no more entries than there are ids with an entry: a further
\* report of the same participant replaces its entry.
C14_OneEntryPerParticipant ==
  /\ \A id \in Ids :
       Cardinality({i \in 1..Len(errors) : errors[i].key = id}) <= 1
  /\ Len(flattenedErrors) <= Cardinality({id \in Ids : HasKey(errors, id)})

\* a reporting participant shows "Error" and setValue("x") has started
\* another validation of it that fails again
C14_Witness ==
  \E id \in Ids :
    /\ Reporting(id)
    /\ canValidate
    /\ errorsById(id) = "Error"
    /\ Count(flattenedErrors, "Error") >= 1
    /\ pending[id] = <<"Error">>
    /\ setFieldValueCalls = <<[id |-> id, value |-> "x"]>>

\* -------------------------------------------------------------------- C15
\* C15: validate() invokes the validator of every registered participant in
\* the one handler, on the participant's current value, whatever is in flight
\* for the others: no invocation waits for another validator to settle.
C15_BroadcastInvokesAll ==
  [][ Validate =>
        \A id \in Ids :
          (\E k \in 1..Len(subscriberRefs) : subscriberRefs[k] = id)
            => pending'[id] = Append(pending[id], Verdict(id)) ]_vars

\* two participants, both with the validation in flight that one validate()
\* started, nothing settled or reported yet
C15_Witness ==
  /\ canValidate
  /\ errors = <<>>
  /\ \E a \in Ids, b \in Ids :
       /\ a # b
       /\ Reporting(a) /\ Len(pending[a]) = 1
       /\ Reporting(b) /\ Len(pending[b]) = 1

\* -------------------------------------------------------------------- C16
\* the coordinator reports, every mounted participant reports and every
\* validation in flight is one of the participant's current value (no value
\* has changed since it was invoked)
AllCurrent ==
  /\ canValidate
  /\ \A id \in Ids :
       Mounted(id) =>
         /\ field[id].canValidate
         /\ \A i \in 1..Len(pending[id]) : pending[id][i] = Verdict(id)

\* C16: with no value change in between, a further validate() (after the
\* earlier one has settled or while it is in flight) broadcasts to every
\* registered participant again, returns to its caller and leaves errors as
\* they are; every validation that settles writes the result a single call
\* gives, and errors no longer change once the participant shows it.
C16_ValidateIdempotent ==
  [][ AllCurrent =>
        /\ Validate =>
             /\ AllCurrent'
             /\ \A id \in Ids :
                  Mounted(id) => pending'[id] = Append(pending[id], Verdict(id))
             /\ flattenedErrors' = flattenedErrors
             /\ lastValidate'.called /\ lastValidate'.kind # "rejected"
        /\ \A id \in Ids, i \in 1..MaxPending :
             (Settle(id, i) /\ Mounted(id)) =>
               /\ AllCurrent'
               /\ Verdict(id) # Threw => errorsById(id)' = AsError(Verdict(id))
               /\ (Verdict(id) = Threw \/ errorsById(id) = AsError(Verdict(id)))
                    => flattenedErrors' = flattenedErrors ]_vars

\* validate() called twice with nothing settled in between: two validations
\* of the same value are in flight for the one participant
C16_Witness ==
  /\ AllCurrent
  /\ nextId = 2
  /\ errors = <<>>
  /\ setFieldValueCalls = <<>>
  /\ \E id \in Ids :
       /\ Reporting(id)
       /\ ~field[id].hasValueProp
       /\ pending[id] = <<Verdict(id), Verdict(id)>>

\* -------------------------------------------------------------------- C17
\* C17: a report that arrives for an id that is not in the registry (a
\* validation that settles after its participant has unmounted) leaves
\* errorsById and errors unchanged.
C17_StaleReportNoOp ==
  [][ \A id \in Ids, i \in 1..MaxPending :
        ( /\ Settle(id, i)
          /\ ~(\E k \in 1..Len(subscriberRefs) : subscriberRefs[k] = id) )
        => /\ errors' = errors
           /\ flattenedErrors' = flattenedErrors ]_vars

\* -------------------------------------------------------------------- C18
\* C18: subscribe(key, cb) leaves exactly one entry for the key, holding cb,
\* and touches no other key, also when the key was registered before; a
\* broadcast invokes the callback held for each key once and nothing else;
\* unsubscribe of an absent key leaves the registry as it is.
C18_RegistryIsAMapping ==
  [][ /\ \A key \in Ids, cb \in Callbacks :
           Subscribe(key, cb) =>
             /\ Cardinality({i \in 1..Len(registry') : registry'[i].key = key}) = 1
             /\ callbackOf(registry', key) = cb
             /\ Len(registry') =
                  Len(registry) + (IF callbackOf(registry, key) = "none" THEN 1 ELSE 0)
             /\ \A k \in Ids \ {key} : callbackOf(registry', k) = callbackOf(registry, k)
      /\ \A key \in Ids :
           (Unsubscribe(key) /\ callbackOf(registry, key) = "none") => registry' = registry
      /\ \A flag \in BOOLEAN :
           Broadcast(flag) =>
             /\ Len(invoked') = Len(registry)
             /\ \A cb \in Callbacks :
                  Count(invoked', cb) =
                    Cardinality({k \in Ids : callbackOf(registry, k) = cb})
             /\ registry' = registry ]_vars

\* subscribe(1, "f"), subscribe(1, "g"), then a broadcast: one entry, "g"
\* invoked once and "f" not at all
C18_Witness ==
  /\ overwritten[1] = "f"
  /\ registry = <<[key |-> 1, callback |-> "g"]>>
  /\ invoked = <<"g">>

\* -------------------------------------------------------------------- C19
\* C19: the argument of the children callback of a mounted participant has a
\* value key exactly when the participant was given a value prop (also when
\* the prop's value is undefined), and always has error and setValue.
C19_RenderContract ==
  \A id \in Ids :
    Mounted(id) =>
      /\ ("value" \in DOMAIN childrenProps(field[id])) <=> ("value" \in DOMAIN props[id])
      /\ {"error", "setValue"} \subseteq DOMAIN childrenProps(field[id])

\* a participant given value={undefined}: the children callback gets the
\* value key, holding undefined
C19_Witness ==
  \E id \in Ids :
    /\ Mounted(id)
    /\ "value" \in DOMAIN props[id]
    /\ props[id].value = Undefined
    /\ "value" \in DOMAIN childrenProps(field[id])
    /\ childrenProps(field[id]).value = Undefined

\* -------------------------------------------------------------------- C20
\* C20: all participants of a coordinator are in the same mode; every
\* validation a participant invokes is the adapter applied to its mirrored
\* value and its fn (the schema, which is not called: calling it would
\* throw) when the coordinator was created with an adapter, and fn applied
\* to its mirrored value otherwise.
C20_ValidatorShape ==
  [][ /\ \A a \in Ids, b \in Ids :
           (props[a] # NotRendered /\ props[b] # NotRendered) =>
             validationFactoryOf(props[a]) = validationFactoryOf(props[b])
      /\ \A id \in Ids :
           Len(pending'[id]) > Len(pending[id]) =>
             LET result == pending'[id][Len(pending'[id])]
             IN IF "validationFactory" \in DOMAIN props[id]
                  THEN /\ result = asyncFactory(field'[id].currentValue, props[id].fn)
                       /\ result # Threw
                  ELSE result = RunFn(props[id].fn, field'[id].currentValue) ]_vars

\* two participants of a coordinator created with the adapter: validate()
\* has invoked the adapter on the undefined value of each
C20_Witness ==
  /\ canValidate
  /\ \E a \in Ids, b \in Ids :
       /\ a # b
       /\ Reporting(a) /\ "validationFactory" \in DOMAIN props[a]
       /\ Reporting(b) /\ "validationFactory" \in DOMAIN props[b]
       /\ pending[a] = <<"Async validation failed">>
       /\ pending[b] = <<"Async validation failed">>

\* -------------------------------------------------------------------- C21
\* C21: whenever the coordinator reports, the messages of errors are in the
\* order in which their participants mounted (useId hands out increasing
\* ids), whatever the order in which the validations settled.
C21_RegistrationOrder ==
  canValidate =>
    \A i \in 1..Len(errors), j \in 1..Len(errors) :
      (i < j /\ Truthy(errors[i].message) /\ Truthy(errors[j].message))
        => errors[i].key < errors[j].key

\* -------------------------------------------------------------------- C22
\* C22: every setValue(v) and every external value sync to v invokes the
\* participant's validator on v in the same handler, whether the participant
\* reports or is gated; a gated participant exposes no error all the same.
C22_ValidatorRunsWhileGated ==
  [][ \A id \in Ids, v \in Values :
        (SetValue(id, v) \/ ExternalValueSync(id, v)) =>
          /\ pending'[id] =
               Append(pending[id],
                      RunValidation(field[id].validationFactory, field[id].fn, v))
          /\ ~field[id].canValidate => exposedError(id)' = Undefined ]_vars

\* -------------------------------------------------------------------- C23
\* C23: every validation a participant invokes, by the callback it subscribed
\* at mount, by setValue or by the external value sync, runs the validator of
\* the props it was rendered with last, never one that has been replaced.
C23_LatestValidatorRuns ==
  [][ \A id \in Ids :
        Len(pending'[id]) > Len(pending[id]) =>
          pending'[id] =
            Append(pending[id],
                   RunValidation(validationFactoryOf(props[id]), props[id].fn,
                                 field'[id].currentValue)) ]_vars

\* a participant that showed "Required" was rendered again with the validator
\* that always fails, and setValue("x") then invoked that one
C23_Witness ==
  \E id \in Ids :
    /\ Reporting(id)
    /\ props[id].fn = "alwaysError"
    /\ errorsById(id) = "Required"
    /\ pending[id] = <<"Error">>
    /\ setFieldValueCalls = <<[id |-> id, value |-> "x"]>>

\* -------------------------------------------------------------------- C24
\* C24: the mirrored value of a participant changes only by its setValue and
\* its external value sync (and is the value prop at mount); setValue(v) of a
\* reporting participant invokes the validator on v, a validate() broadcast
\* invokes it on the value mirrored at that moment, and every invocation gets
\* the value that is mirrored when the handler is done.
C24_ValidatesMirroredValue ==
  [][ /\ \A id \in Ids :
           (Mounted(id) /\ field'[id].currentValue # field[id].currentValue) =>
             \/ Unmount(id)
             \/ SetValue(id, field'[id].currentValue)
             \/ ExternalValueSync(id, field'[id].currentValue)
      /\ \A id \in Ids, v \in Values :
           (field[id].canValidate /\ SetValue(id, v)) =>
             pending'[id] =
               Append(pending[id],
                      RunValidation(field[id].validationFactory, field[id].fn, v))
      /\ Validate =>
           \A id \in Ids :
             Mounted(id) =>
               /\ field'[id].currentValue = field[id].currentValue
               /\ pending'[id] =
                    Append(pending[id],
                           RunValidation(field[id].validationFactory, field[id].fn,
                                         field[id].currentValue))
      /\ \A id \in Ids :
           Len(pending'[id]) > Len(pending[id]) =>
             pending'[id][Len(pending'[id])] =
               RunValidation(field'[id].validationFactory, field'[id].fn,
                             field'[id].currentValue) ]_vars

\* setValue("x") was called before the first validate(), which left the
\* gated report of undefined in errorsById and nothing in flight; validate()
\* then invoked the validator on "x"
C24_Witness ==
  \E id \in Ids :
    /\ Reporting(id)
    /\ ~field[id].hasValueProp
    /\ field[id].fn = "required"
    /\ field[id].currentValue = "x"
    /\ errors = <<[key |-> id, message |-> Undefined]>>
    /\ pending[id] = <<Valid>>
    /\ setFieldValueCalls = <<>>
    /\ ~raced

\* -------------------------------------------------------------------- C25
\* C25: a participant is gated when it has mounted, whatever the
\* coordinator's flag is at that moment; a gated participant starts to report
\* only in a validate() call, and until then it exposes no error.
C25_StartsGated ==
  [][ /\ \A id \in Ids :
           (id = nextId /\ Mount) =>
             /\ field'[id].status = "mounted"
             /\ ~field'[id].canValidate
             /\ exposedError(id)' = Undefined
      /\ \A id \in Ids :
           (~field[id].canValidate /\ field'[id].canValidate) => Validate
      /\ \A id \in Ids :
           (Mounted(id) /\ ~field[id].canValidate /\ ~Validate)
             => exposedError(id)' = Undefined ]_vars

\* the coordinator reports, and a participant mounted after the validate()
\* call is gated: its validator rejects its value and it exposes no error
C25_Witness ==
  /\ canValidate
  /\ lastValidate.called
  /\ \E id \in Ids :
       /\ Mounted(id)
       /\ ~field[id].canValidate
       /\ Verdict(id) \notin {Valid, Threw}
       /\ exposedError(id) = Undefined
       /\ ~HasKey(errors, id)

\* -------------------------------------------------------------------- C26
\* C26: in the handler of reset(), every participant registered at that
\* moment becomes gated, its error state becomes undefined and errorsById
\* holds no message for it, and no validator is invoked: nothing is added to
\* what is in flight.
C26_ResetGatesAll ==
  [][ Reset =>
        /\ \A id \in Ids :
             (\E k \in 1..Len(subscriberRefs) : subscriberRefs[k] = id) =>
               /\ ~field'[id].canValidate
               /\ field'[id].error = Undefined
               /\ errorsById(id)' = Undefined
        /\ pending' = pending ]_vars

\* reset() has gated a participant that was reporting: a validation it
\* invoked is still in flight, its error state and errorsById are empty
C26_Witness ==
  /\ ~canValidate
  /\ errors = <<>>
  /\ \E id \in Ids :
       /\ Mounted(id)
       /\ ~field[id].canValidate
       /\ field[id].error = Undefined
       /\ pending[id] # <<>>
       /\ Verdict(id) = "Error"

\* -------------------------------------------------------------------- C27
\* C27: in every state the keys of the registry are exactly the ids of the
\* mounted participants, each once: the broadcasts of validate() and reset()
\* reach every mounted participant and no unmounted one.
C27_RegistryIsMounted ==
  /\ {subscriberRefs[i] : i \in 1..Len(subscriberRefs)} = MountedIds
  /\ Len(subscriberRefs) = Cardinality(MountedIds)

\* the first participant has unmounted and the second one is mounted: the
\* registry holds the second id only
C27_Witness ==
  /\ field[1].status = "unmounted"
  /\ Mounted(2)
  /\ subscriberRefs = <<2>>
  /\ canValidate

\* -------------------------------------------------------------------- C28
\* C28: in every step other than reset(), the keys of errorsById keep their
\* order and a key that reports for the first time goes behind them: a
\* further report of a participant (a message, or undefined when it becomes
\* valid or gated) stays at the position of its first report.
C28_PositionFixedByFirstReport ==
  [][ \/ /\ Len(errors') \in {Len(errors), Len(errors) + 1}
         /\ \A i \in 1..Len(errors) : errors'[i].key = errors[i].key
      \/ Reset ]_vars

\* two reporting participants: the first one has reported more than once
\* (undefined while it was gated, or "Required", and then undefined for the
\* value "x"), and its entry still is in front of the second one's
C28_Witness ==
  /\ canValidate
  /\ InFlight(pending) = 0
  /\ ~raced
  /\ errors = <<[key |-> 1, message |-> Undefined], [key |-> 2, message |-> "Required"]>>
  /\ Reporting(1) /\ field[1].currentValue = "x"
  /\ Reporting(2) /\ field[2].currentValue = Undefined

\* -------------------------------------------------------------------- C29
\* C29: in every state, and so after each applied validation result and after
\* each reset(), the error state of every mounted participant is the message
\* errorsById holds for its id, or both are absent.
C29_LocalErrorMirrors ==
  \A id \in Ids : Mounted(id) => field[id].error = errorsById(id)

\* after reset() a validation invoked before it has settled: the gated
\* participant and errorsById both hold its message
C29_Witness ==
  /\ ~canValidate
  /\ lastValidate.called
  /\ \E id \in Ids :
       /\ Mounted(id)
       /\ ~field[id].canValidate
       /\ field[id].error = "Required"
       /\ errorsById(id) = "Required"

\* -------------------------------------------------------------------- C30
\* C30: while the coordinator does not report, every message held by
\* errorsById or by a participant comes from a validation invoked before the
\* last reset(); none of them is visible, and none becomes visible when the
\* next validate() makes the coordinator report again (the validations that
\* call invokes have not settled when it returns).
C30_NoStaleAfterReset ==
  [][ /\ ~canValidate' =>
           /\ flattenedErrors' = <<>>
           /\ \A id \in Ids : field'[id].status = "mounted" => exposedError(id)' = Undefined
      /\ (~canValidate /\ Validate) =>
           /\ flattenedErrors' = <<>>
           /\ \A id \in Ids : Mounted(id) => exposedError(id)' = Undefined ]_vars

\* -------------------------------------------------------------------- C31
\* C31: with validators that never throw, at the moment a validate() call
\* hands its outcome to the caller, and from then on as long as nothing else
\* is called, every registered participant reports and has its last
\* validation applied: none of its validations is in flight.
C31_ResolvedMeansApplied ==
  [][ ( /\ Validate
        /\ \A id \in Ids : Mounted(id) => field[id].fn # "throws" )
      => /\ lastValidate'.called
         /\ \A id \in Ids :
              (\E k \in 1..Len(subscriberRefs) : subscriberRefs[k] = id)
                => /\ field'[id].canValidate
                   /\ pending'[id] = <<>> ]_vars

\* -------------------------------------------------------------------- C32
\* C32: the state of a participant (mirrored value, error state, gating
\* flag) and its errorsById entry do not change in a step that is the
\* setValue, the external value sync or a settling validation of another
\* participant: every report is an update of the reporter's own entry.
C32_ReportsAreOwnEntry ==
  [][ \A other \in Ids :
        ( \/ field'[other] # field[other]
          \/ /\ errors' # errors
             /\ \/ errorsById(other)' # errorsById(other)
                \/ HasKey(errors, other)' # HasKey(errors, other) )
        => \A id \in Ids \ {other} :
             /\ \A v \in Values : ~SetValue(id, v) /\ ~ExternalValueSync(id, v)
             /\ \A i \in 1..MaxPending : ~Settle(id, i) ]_vars

\* the validations that one validate() started for two participants have
\* settled in the reverse order, and errorsById holds both reports
C32_Witness ==
  /\ canValidate
  /\ InFlight(pending) = 0
  /\ Reporting(1) /\ Reporting(2)
  /\ errors = <<[key |-> 2, message |-> "Error"], [key |-> 1, message |-> "Error"]>>

\* -------------------------------------------------------------------- C33
\* C33: when a validation that threw (or whose promise rejected) settles, the
\* participant's error state, its gating flag and errorsById stay as they
\* are: nothing is cleared and no message is made of the exception.
C33_ThrowAppliesNothing ==
  [][ \A id \in Ids, i \in 1..MaxPending :
        (i <= Len(pending[id]) /\ pending[id][i] = Threw /\ Settle(id, i))
          => /\ field' = field
             /\ errors' = errors
             /\ flattenedErrors' = flattenedErrors ]_vars

\* a reporting participant shows "Required" from an earlier validation; its
\* validator has been replaced by one that throws, setValue("x") has invoked
\* it and the rejection has settled: the message is still there
C33_Witness ==
  \E id \in Ids :
    /\ Reporting(id)
    /\ canValidate
    /\ field[id].fn = "throws"
    /\ field[id].currentValue = "x"
    /\ field[id].error = "Required"
    /\ flattenedErrors = <<"Required">>
    /\ pending[id] = <<>>
    /\ ~raced

\* -------------------------------------------------------------------- C34
\* C34: a step in which the mirrored value, the value prop, the validator or
\* the mounting of a participant changes, or the registry, or in which a
\* consumer's value setter is called, is neither validate() nor reset().
C34_BroadcastKeepsValues ==
  [][ ( \/ \E id \in Ids :
             \/ field'[id].currentValue # field[id].currentValue
             \/ field'[id].externalValue # field[id].externalValue
             \/ field'[id].fn # field[id].fn
             \/ field'[id].status # field[id].status
        \/ setFieldValueCalls' # <<>>
        \/ subscriberRefs' # subscriberRefs
        \/ props' # props )
      => (~Validate /\ ~Reset) ]_vars

\* reset() has gated a participant whose validation of "x" is in flight: it
\* still mirrors "x" and no setter was called
C34_Witness ==
  \E id \in Ids :
    /\ ~canValidate
    /\ Mounted(id)
    /\ ~field[id].canValidate
    /\ field[id].currentValue = "x"
    /\ pending[id] = <<Valid>>
    /\ setFieldValueCalls = <<>>
    /\ errors = <<>>

\* -------------------------------------------------------------------- C35
\* C35: the re-render that hands a participant a new validator invokes no
\* validation and reports nothing: what is in flight, the participant's error
\* state, its exposed error, errorsById and errors are as before.
C35_ReplacementIsSilent ==
  [][ \A id \in Ids, fn \in ReplacementFns :
        SetProps(id, fn) =>
          /\ pending' = pending
          /\ field'[id].error = field[id].error
          /\ exposedError(id)' = exposedError(id)
          /\ errors' = errors
          /\ flattenedErrors' = flattenedErrors ]_vars

\* a reporting participant with the accepted value "x" and nothing shown has
\* been handed the validator that always fails: still nothing is shown and
\* nothing is in flight
C35_Witness ==
  \E id \in Ids :
    /\ Reporting(id)
    /\ canValidate
    /\ props[id].fn = "alwaysError"
    /\ field[id].currentValue = "x"
    /\ HasKey(errors, id)
    /\ exposedError(id) = Undefined
    /\ flattenedErrors = <<>>
    /\ pending[id] = <<>>
    /\ ~raced

====
